---- MODULE Spec2Model ----
(***************************************************************************)
(* EarlyAllocator<PAGE_SIZE> of modules/bump_allocator: a double-ended     *)
(* bump allocator over one span [start, end).  Bytes are carved upward     *)
(* from b_pos (byte_next), pages downward from p_pos (page_next).          *)
(*                                                                         *)
(* All fields are usize.  The word is scaled down to WordBits bits so that *)
(* the arithmetic of the handlers can be explored exhaustively; every      *)
(* `+`, `-`, `*` of the source is modelled with its width.  An overflowing *)
(* usize operation panics when the crate is built with overflow checks     *)
(* (debug profile) and wraps modulo 2^WordBits otherwise (release          *)
(* profile); which of the two the build produces is fixed at start-up in   *)
(* overflow_checks.                                                        *)
(*                                                                         *)
(* Three specifications share the state: Spec (any caller of the           *)
(* allocator), SpecCaller (a caller that calls init once and frees only    *)
(* what it holds) and SpecMap (the fixed-capacity HashMap of               *)
(* axstd::collections::hash::map).                                         *)
(***************************************************************************)
EXTENDS Integers, FiniteSets, Sequences, Bags, TLC

\* ---------------------------------------------------------------- bounds
\* log2 of the PAGE_SIZE const generic the allocator is instantiated with.
PageShift == 2
\* Cap on the live counters (the code's counters are unbounded usize).
MaxLive == 2

\* Width of usize in the model: an address space of eight pages.
WordBits == PageShift + 3

Modulus == 2 ^ WordBits
USIZE_MAX == Modulus - 1
ISIZE_MAX == 2 ^ (WordBits - 1) - 1
PAGE_SIZE == 2 ^ PageShift

\* ------------------------------------------------------- usize arithmetic
WrapAdd(a, b) == (a + b) % Modulus
WrapSub(a, b) == (a - b) % Modulus
WrapMul(a, b) == (a * b) % Modulus
AddOverflows(a, b) == a + b > USIZE_MAX
SubOverflows(a, b) == a < b
MulOverflows(a, b) == a * b > USIZE_MAX

\* x & !(align - 1).  For align a power of two the mask clears the low
\* log2(align) bits, i.e. subtracts x mod align.
MaskLow(x, align) == x - (x % align)

\* fn align_up(addr, align): (addr + align - 1) & !(align - 1), evaluated
\* left to right in usize.
align_up_rounds_down(addr, align) == MaskLow(addr, align)
align_up(addr, align) == MaskLow(WrapSub(WrapAdd(addr, align), 1), align)
\* `addr + align` is the only step of align_up that can overflow
\* (align >= 1, so neither `align - 1` nor the following `- 1` underflows
\* unless the addition has already wrapped).
align_up_overflows(addr, align) == AddOverflows(addr, align)

\* fn align_down(addr, align): addr & !(align - 1)
align_down(addr, align) == MaskLow(addr, align)

\* ----------------------------------------------------------------- inputs
\* Spans (start, size) handed to init(): three pages at address 0, two
\* pages at an unaligned address low in the address space, and three pages
\* at the bottom of the upper half of the address space (where a kernel's
\* direct map lives).  Every span fits the address space.
InitSpans ==
    { <<0, 3 * PAGE_SIZE>>,
      <<PAGE_SIZE + 2, 2 * PAGE_SIZE>>,
      <<2 ^ (WordBits - 1), 3 * PAGE_SIZE>> }

\* core::alloc::Layout: align is a non-zero power of two and size, rounded
\* up to align, does not exceed isize::MAX.
LayoutAligns == {1, PAGE_SIZE, 2 ^ (WordBits - 1)}
LayoutSizes == {0, 1, 3 * PAGE_SIZE, ISIZE_MAX}
Layouts == {l \in LayoutSizes \X LayoutAligns : l[1] <= ISIZE_MAX - (l[2] - 1)}

\* alloc_pages(num_pages, align_pow2)
NumPages == {1, 2, 3, 4, 2 ^ (WordBits - PageShift)}
PageAligns == {PAGE_SIZE, 2 * PAGE_SIZE}

\* add_memory(start, size): a further span above the ones init() is given.
AddSpans == { <<6 * PAGE_SIZE, PAGE_SIZE>> }

\* Arguments of dealloc / dealloc_pages (the code ignores them).
FreeAddrs == {0, PAGE_SIZE + 2}
FreeSizes == {1}

\* ------------------------------------------------------------------ state
VARIABLES
    overflow_checks, \* build: TRUE = overflow panics, FALSE = overflow wraps
    status,          \* "new" (constructed), "ready" (init called), "aborted" (panicked)
    start, end,      \* EarlyAllocator.start / .end
    byte_next,       \* EarlyAllocator.byte_next   (b_pos)
    byte_count,      \* EarlyAllocator.byte_count
    page_next,       \* EarlyAllocator.page_next   (p_pos)
    page_count,      \* EarlyAllocator.page_count
    last,            \* the last call and what it returned to the caller
    hist_ok,         \* history: byte allocations that returned Ok / frees since init
    hist_bump,       \* history: byte allocations that bumped byte_count / frees since init
    outstanding,     \* caller: bag of the ranges it was given and has not released
    map_state,       \* "none" (no HashMap yet), "live", "aborted" (a call panicked)
    capacity,        \* HashMap.capacity
    buckets,         \* HashMap.buckets: index -> None or <<key, value>>
    expected,        \* reference map: key -> None or <<value>>, one entry per insert that returned
    map_last         \* the last HashMap call and what it returned

vars == <<overflow_checks, status, start, end, byte_next, byte_count,
          page_next, page_count, last, hist_ok, hist_bump, outstanding,
          map_state, capacity, buckets, expected, map_last>>

fields == <<start, end, byte_next, byte_count, page_next, page_count>>
history == <<hist_ok, hist_bump>>
hashmap == <<map_state, capacity, buckets, expected, map_last>>
allocator == <<overflow_checks, status, fields, history, outstanding, last>>

Call(op, a, b, res, ret) == [op |-> op, a |-> a, b |-> b, res |-> res, ret |-> ret]

\* A history of byte allocations followed by frees since the last init:
\* a allocations, then d frees, then (after) one more allocation once
\* d = a >= 1; broken as soon as the calls leave that shape.
HistNew == [a |-> 0, d |-> 0, after |-> FALSE, broken |-> FALSE]
HistBroken == [a |-> 0, d |-> 0, after |-> FALSE, broken |-> TRUE]
HistAlloc(h) ==
    IF h.broken \/ h.after THEN HistBroken
    ELSE IF h.d = 0 THEN [h EXCEPT !.a = h.a + 1]
    ELSE IF h.d = h.a THEN [h EXCEPT !.after = TRUE]
    ELSE HistBroken
HistFree(h) ==
    IF h.broken \/ h.after \/ h.d >= h.a THEN HistBroken
    ELSE [h EXCEPT !.d = h.d + 1]

\* The counters are explored up to MaxLive, and at the value a decrement of
\* zero wraps to.
InLiveWindow(c) == c <= MaxLive \/ c = USIZE_MAX

\* EarlyAllocator::new()
Init ==
    /\ overflow_checks \in BOOLEAN
    /\ status = "new"
    /\ start = 0 /\ end = 0
    /\ byte_next = 0 /\ byte_count = 0
    /\ page_next = 0 /\ page_count = 0
    /\ last = Call("new", 0, 0, "unit", 0)
    /\ hist_ok = HistNew /\ hist_bump = HistNew
    /\ outstanding = EmptyBag
    /\ map_state = "none" /\ capacity = 0
    /\ buckets = << >> /\ expected = << >>
    /\ map_last = Call("none", << >>, 0, "unit", 0)

\* A panic (overflow check, todo!()) unwinds out of the handler before any
\* field is written and takes the kernel down.
Panic(op, a, b) ==
    /\ status' = "aborted"
    /\ last' = Call(op, a, b, "panic", 0)
    /\ UNCHANGED <<overflow_checks, fields, history>>

\* BaseAllocator::init
init(s, size) ==
    /\ status \in {"new", "ready"}
    /\ IF overflow_checks /\ AddOverflows(s, size)
       THEN Panic("init", s, size)
       ELSE /\ start' = s
            /\ end' = WrapAdd(s, size)
            /\ byte_count' = 0
            /\ byte_next' = s
            /\ page_next' = WrapAdd(s, size)
            /\ page_count' = page_count
            /\ status' = "ready"
            /\ last' = Call("init", s, size, "unit", 0)
            /\ hist_ok' = HistNew /\ hist_bump' = HistNew
            /\ UNCHANGED overflow_checks

\* BaseAllocator::add_memory: todo!()
add_memory(s, size) ==
    /\ status = "ready"
    /\ Panic("add_memory", s, size)

\* ByteAllocator::alloc
alloc(size, align) ==
    /\ status = "ready"
    /\ LET astart == align_up(byte_next, align)
           aend == WrapAdd(astart, size)
           ovf == align_up_overflows(byte_next, align) \/ AddOverflows(astart, size)
       IN  IF overflow_checks /\ ovf
           THEN Panic("alloc", size, align)
           ELSE IF aend > page_next
           THEN /\ last' = Call("alloc", size, align, "NoMemory", 0)
                /\ UNCHANGED <<overflow_checks, status, fields, history>>
           ELSE IF overflow_checks /\ AddOverflows(byte_count, 1)
           THEN Panic("alloc", size, align)
           ELSE /\ InLiveWindow(WrapAdd(byte_count, 1))
                /\ byte_count' = WrapAdd(byte_count, 1)
                /\ byte_next' = aend
                \* NonNull::new(start as *mut u8).ok_or(NoMemory)
                /\ last' = IF astart = 0
                           THEN Call("alloc", size, align, "NoMemory", 0)
                           ELSE Call("alloc", size, align, "Ok", astart)
                /\ hist_ok' = IF astart = 0 THEN hist_ok ELSE HistAlloc(hist_ok)
                /\ hist_bump' = HistAlloc(hist_bump)
                /\ UNCHANGED <<overflow_checks, status, start, end,
                               page_next, page_count>>

\* dealloc: `if self.byte_count == 0 { self.byte_next = self.start; }`
dealloc_keeps_cursor(count) == byte_next
dealloc_resets_always(count) == start
dealloc_byte_next(count) == IF count = 0 THEN start ELSE byte_next

\* ByteAllocator::dealloc
dealloc(pos, size) ==
    /\ status = "ready"
    /\ IF overflow_checks /\ SubOverflows(byte_count, 1)
       THEN Panic("dealloc", pos, size)
       ELSE /\ InLiveWindow(WrapSub(byte_count, 1))
            /\ byte_count' = WrapSub(byte_count, 1)
            /\ byte_next' = dealloc_byte_next(WrapSub(byte_count, 1))
            /\ last' = Call("dealloc", pos, size, "unit", 0)
            /\ hist_ok' = HistFree(hist_ok)
            /\ hist_bump' = HistFree(hist_bump)
            /\ UNCHANGED <<overflow_checks, status, start, end,
                           page_next, page_count>>

\* alloc_pages: `if start < self.byte_next { Err(NoMemory) }`
pages_no_memory_below_span(pstart) == pstart < start
pages_no_memory(pstart) == pstart < byte_next

\* PageAllocator::alloc_pages
alloc_pages(num_pages, align_pow2) ==
    /\ status = "ready"
    /\ LET bytes == WrapMul(PAGE_SIZE, num_pages)
           pstart == align_down(WrapSub(page_next, bytes), align_pow2)
           ovf == MulOverflows(PAGE_SIZE, num_pages) \/ SubOverflows(page_next, bytes)
       IN  IF overflow_checks /\ ovf
           THEN Panic("alloc_pages", num_pages, align_pow2)
           ELSE IF pages_no_memory(pstart)
           THEN /\ last' = Call("alloc_pages", num_pages, align_pow2, "NoMemory", 0)
                /\ UNCHANGED <<overflow_checks, status, fields, history>>
           ELSE IF overflow_checks /\ AddOverflows(page_count, 1)
           THEN Panic("alloc_pages", num_pages, align_pow2)
           ELSE /\ InLiveWindow(WrapAdd(page_count, 1))
                /\ page_count' = WrapAdd(page_count, 1)
                /\ page_next' = pstart
                /\ last' = Call("alloc_pages", num_pages, align_pow2, "Ok", pstart)
                /\ UNCHANGED <<overflow_checks, status, start, end,
                               byte_next, byte_count, hist_ok, hist_bump>>

\* dealloc_pages: `if self.page_count == 0 { self.page_next = self.end; }`
dealloc_pages_resets_always(count) == end
dealloc_pages_page_next(count) == IF count = 0 THEN end ELSE page_next

\* PageAllocator::dealloc_pages
dealloc_pages(pos, num_pages) ==
    /\ status = "ready"
    /\ IF overflow_checks /\ SubOverflows(page_count, 1)
       THEN Panic("dealloc_pages", pos, num_pages)
       ELSE /\ InLiveWindow(WrapSub(page_count, 1))
            /\ page_count' = WrapSub(page_count, 1)
            /\ page_next' = dealloc_pages_page_next(WrapSub(page_count, 1))
            /\ last' = Call("dealloc_pages", pos, num_pages, "unit", 0)
            /\ UNCHANGED <<overflow_checks, status, start, end,
                           byte_next, byte_count, hist_ok, hist_bump>>

\* PageAllocator::used_pages
used_pages == page_count

\* Introspection methods of ByteAllocator (lib.rs 83-93) and PageAllocator
\* (lib.rs 119-129): each is one usize subtraction, so each has a value and
\* an underflow condition.
total_bytes == WrapSub(end, start)
used_bytes == WrapSub(byte_next, start)
available_bytes == WrapSub(page_next, byte_next)
total_pages == WrapSub(end, start) \div PAGE_SIZE
available_pages == WrapSub(page_next, byte_next) \div PAGE_SIZE

Introspection ==
    [total_bytes     |-> [val |-> total_bytes,     ovf |-> SubOverflows(end, start)],
     used_bytes      |-> [val |-> used_bytes,      ovf |-> SubOverflows(byte_next, start)],
     available_bytes |-> [val |-> available_bytes, ovf |-> SubOverflows(page_next, byte_next)],
     total_pages     |-> [val |-> total_pages,     ovf |-> SubOverflows(end, start)],
     used_pages      |-> [val |-> used_pages,      ovf |-> FALSE],
     available_pages |-> [val |-> available_pages, ovf |-> SubOverflows(page_next, byte_next)]]

\* A call of one introspection method (&self): it returns the value, or
\* panics on underflow in the overflow-checked build.
introspect(op) ==
    /\ status = "ready"
    /\ IF overflow_checks /\ Introspection[op].ovf
       THEN Panic(op, 0, 0)
       ELSE /\ last' = Call(op, 0, 0, "Ok", Introspection[op].val)
            /\ UNCHANGED <<overflow_checks, status, fields, history>>

\* Any caller: every method, with any arguments.
Next ==
    \/ \E span \in InitSpans : init(span[1], span[2])
          /\ UNCHANGED <<outstanding, hashmap>>
    \/ \E span \in AddSpans : add_memory(span[1], span[2])
          /\ UNCHANGED <<outstanding, hashmap>>
    \/ \E l \in Layouts : alloc(l[1], l[2])
          /\ UNCHANGED <<outstanding, hashmap>>
    \/ \E pos \in FreeAddrs, size \in FreeSizes : dealloc(pos, size)
          /\ UNCHANGED <<outstanding, hashmap>>
    \/ \E n \in NumPages, al \in PageAligns : alloc_pages(n, al)
          /\ UNCHANGED <<outstanding, hashmap>>
    \/ \E pos \in FreeAddrs, n \in FreeSizes : dealloc_pages(pos, n)
          /\ UNCHANGED <<outstanding, hashmap>>
    \/ \E op \in DOMAIN Introspection : introspect(op)
          /\ UNCHANGED <<outstanding, hashmap>>

Spec == Init /\ [][Next]_vars

\* ------------------------------------------------ a well-behaved caller
\* The caller of GlobalAlloc-style use: it calls init once, keeps what alloc
\* and alloc_pages returned (outstanding, a bag of ranges) and passes to
\* dealloc / dealloc_pages only something it holds, once.
CallerSpans == { <<0, 3 * PAGE_SIZE>>, <<PAGE_SIZE + 2, 2 * PAGE_SIZE>> }
CallerLayouts == { <<2, 1>>, <<PAGE_SIZE, PAGE_SIZE>> }
CallerNumPages == {1, 4}

Range(kind, lo, size) == [kind |-> kind, lo |-> lo, size |-> size]
Held(kind) == {r \in BagToSet(outstanding) : r.kind = kind}

caller_init(s, size) ==
    /\ status = "new"
    /\ init(s, size)
    /\ outstanding' = EmptyBag

caller_alloc(size, align) ==
    /\ alloc(size, align)
    /\ outstanding' = IF last'.res = "Ok"
                      THEN outstanding (+) SetToBag({Range("bytes", last'.ret, size)})
                      ELSE outstanding

caller_dealloc(r) ==
    /\ dealloc(r.lo, r.size)
    /\ outstanding' = outstanding (-) SetToBag({r})

caller_alloc_pages(num_pages, align_pow2) ==
    /\ alloc_pages(num_pages, align_pow2)
    /\ outstanding' = IF last'.res = "Ok"
                      THEN outstanding (+) SetToBag({Range("pages", last'.ret, num_pages * PAGE_SIZE)})
                      ELSE outstanding

caller_dealloc_pages(r) ==
    /\ dealloc_pages(r.lo, r.size \div PAGE_SIZE)
    /\ outstanding' = outstanding (-) SetToBag({r})

NextCaller ==
    \/ \E span \in CallerSpans : caller_init(span[1], span[2])
          /\ UNCHANGED hashmap
    \/ \E l \in CallerLayouts : caller_alloc(l[1], l[2])
          /\ UNCHANGED hashmap
    \/ \E r \in Held("bytes") : caller_dealloc(r)
          /\ UNCHANGED hashmap
    \/ \E n \in CallerNumPages : caller_alloc_pages(n, PAGE_SIZE)
          /\ UNCHANGED hashmap
    \/ \E r \in Held("pages") : caller_dealloc_pages(r)
          /\ UNCHANGED hashmap

SpecCaller == Init /\ [][NextCaller]_vars

\* ----------------------------------------------------------- the HashMap
\* axstd::collections::hash::map::HashMap<K, V> with &str / String keys (a
\* key is its sequence of bytes).  The bucket index is hash % capacity; for a
\* capacity that divides 2^HashBits it depends only on the low HashBits bits
\* of the 64-bit FNV-1a hash, which FNV1a computes exactly (xor and wrapping
\* multiplication commute with truncation).
HashBits == 16
FNV_OFFSET_BASIS == 8997    \* 0xcbf29ce484222325 mod 2^16
FNV_PRIME == 435            \* 0x100000001b3 mod 2^16

RECURSIVE Xor(_, _)
Xor(a, b) ==
    IF a = 0 THEN b
    ELSE IF b = 0 THEN a
    ELSE ((a + b) % 2) + 2 * Xor(a \div 2, b \div 2)

\* FNV1aHasher::write over the bytes of the key, then finish
RECURSIVE FNV1aWrite(_, _)
FNV1aWrite(h, bytes) ==
    IF bytes = << >> THEN h
    ELSE FNV1aWrite((Xor(h, Head(bytes)) * FNV_PRIME) % 2 ^ HashBits, Tail(bytes))

FNV1a(k) == FNV1aWrite(FNV_OFFSET_BASIS, k)

MapCapacities == {0, 1, 2, 4}
MapKeys == { <<97>>, <<101>>, <<105>>, <<98>>, <<100>>, <<97, 98>> }
MapValues == {1, 2}

None == << >>
Some(x) == <<x>>

\* HashMap::hash, for capacity > 0 (capacity = 0 is a division by zero)
hash(k) == FNV1a(k) % capacity

\* The `for _ in 0..self.capacity` loop shared by insert and get: the bucket
\* that ends the probing and why, after at most n more probes.
RECURSIVE Probe(_, _, _)
Probe(k, index, n) ==
    IF n = 0 THEN [at |-> index, why |-> "exhausted"]
    ELSE IF buckets[index] = None THEN [at |-> index, why |-> "empty"]
    ELSE IF buckets[index][1] = k THEN [at |-> index, why |-> "found"]
    ELSE Probe(k, (index + 1) % capacity, n - 1)

MapPanic(op, k, v) ==
    /\ map_state' = "aborted"
    /\ map_last' = Call(op, k, v, "panic", 0)
    /\ UNCHANGED <<capacity, buckets, expected>>

new_with_capacity(cap) ==
    /\ map_state = "none"
    /\ map_state' = "live"
    /\ capacity' = cap
    /\ buckets' = [i \in 0 .. cap - 1 |-> None]
    /\ expected' = [k \in MapKeys |-> None]
    /\ map_last' = Call("new_with_capacity", << >>, cap, "unit", 0)

insert(k, v) ==
    /\ map_state = "live"
    /\ IF capacity = 0
       THEN MapPanic("insert", k, v)
       ELSE LET p == Probe(k, hash(k), capacity)
            IN  IF p.why = "exhausted"
                THEN MapPanic("insert", k, v)
                ELSE /\ buckets' = [buckets EXCEPT ![p.at] = <<k, v>>]
                     /\ map_last' = IF p.why = "found"
                                     THEN Call("insert", k, v, "Some", buckets[p.at][2])
                                     ELSE Call("insert", k, v, "None", 0)
                     /\ expected' = [expected EXCEPT ![k] = Some(v)]
                     /\ UNCHANGED <<map_state, capacity>>

get(k) ==
    /\ map_state = "live"
    /\ IF capacity = 0
       THEN MapPanic("get", k, 0)
       ELSE LET p == Probe(k, hash(k), capacity)
            IN  /\ map_last' = IF p.why = "found"
                               THEN Call("get", k, 0, "Some", buckets[p.at][2])
                               ELSE Call("get", k, 0, "None", 0)
                /\ UNCHANGED <<map_state, capacity, buckets, expected>>

NextMap ==
    \/ \E cap \in MapCapacities : new_with_capacity(cap)
          /\ UNCHANGED allocator
    \/ \E k \in MapKeys, v \in MapValues : insert(k, v)
          /\ UNCHANGED allocator
    \/ \E k \in MapKeys : get(k)
          /\ UNCHANGED allocator

SpecMap == Init /\ [][NextMap]_vars

\* ----------------------------------------------------------------- claims
\* Rounding in unbounded integers, as the specification states it.
RoundUp(x, align) == ((x + align - 1) \div align) * align
RoundDown(x, align) == (x \div align) * align

\* C1: in every state reached after init by any sequence of byte and page
\* allocations and deallocations, start <= byte_next <= page_next <= end.
C1_CursorOrder ==
    status # "new" =>
        /\ start <= byte_next
        /\ byte_next <= page_next
        /\ page_next <= end

\* C2: an alloc or alloc_pages call that returns an error to the caller
\* leaves both cursors and both live counts as they were.
C2_FailedCallChangesNothing ==
    [][(last'.op \in {"alloc", "alloc_pages"} /\ last'.res = "NoMemory")
         => UNCHANGED <<byte_next, page_next, byte_count, page_count>>]_vars

\* C3: the address a successful alloc(size, align) returns is a multiple of
\* align and is not below byte_next as it was before the call.
C3_AlignedAtOrAboveCursor ==
    [][(last'.op = "alloc" /\ last'.res = "Ok")
         => /\ last'.ret % last'.b = 0
            /\ last'.ret >= byte_next]_vars

\* The first allocation after init, page-aligned, returned above an
\* unaligned start: padding was inserted by align_up.
C3_Witness ==
    /\ last.op = "alloc" /\ last.res = "Ok"
    /\ last.b = PAGE_SIZE
    /\ hist_bump = [HistNew EXCEPT !.a = 1]
    /\ start % PAGE_SIZE # 0
    /\ last.ret > start
    /\ last.ret % PAGE_SIZE = 0

\* n >= 1 byte allocations recorded in h, then n deallocations, since init.
AllocsThenFrees(h) ==
    /\ status = "ready"
    /\ ~h.broken /\ ~h.after
    /\ h.a >= 1 /\ h.d = h.a

C5_CursorsNarrowOrReset ==
    [][status = "ready" =>
         /\ (byte_next' >= byte_next \/ byte_next' = start')
         /\ (page_next' <= page_next \/ page_next' = end')]_vars

\* C6: add_memory returns an unsupported-operation failure to its caller,
\* changes no field and does not abort.
C6_AddMemoryReportsUnsupported ==
    [][last'.op = "add_memory" =>
         /\ last'.res = "Unsupported"
         /\ status' = "ready"
         /\ UNCHANGED fields]_vars

\* Whether a request fits the free region [byte_next, page_next), in
\* unbounded integers.
BytesFit(size, align) == RoundUp(byte_next, align) + size <= page_next
PagesFit(num_pages, align_pow2) ==
    RoundDown(page_next - num_pages * PAGE_SIZE, align_pow2) >= byte_next

\* C7: every alloc or alloc_pages request that does not fit the free region
\* returns NoMemory to its caller, and the allocator does not abort.
C7_UnsatisfiableReturnsNoMemory ==
    [][(\/ last'.op = "alloc" /\ ~BytesFit(last'.a, last'.b)
        \/ last'.op = "alloc_pages" /\ ~PagesFit(last'.a, last'.b))
         => (last'.res = "NoMemory" /\ status' = "ready")]_vars

\* C8: right after any call init(start, size), a repeated one included,
\* end = start + size, byte_next = start, page_next = end and both live
\* counts are 0.
C8_InitResetsEverything ==
    (last.op = "init" /\ last.res = "unit") =>
        /\ start = last.a
        /\ end = last.a + last.b
        /\ byte_next = start
        /\ page_next = end
        /\ byte_count = 0
        /\ page_count = 0

\* C9: used_pages() is the number of successful alloc_pages calls minus the
\* number of dealloc_pages calls since the last init: init makes it 0, a
\* successful alloc_pages adds one, a dealloc_pages of an outstanding
\* allocation takes one away, and no other call changes it.  (A
\* dealloc_pages with nothing outstanding has no such difference; it is
\* not constrained here.)
C9_UsedPagesCountsCalls ==
    [][status' = "ready" =>
         used_pages' =
            CASE last'.op = "init" -> 0
              [] last'.op = "alloc_pages" /\ last'.res = "Ok" -> used_pages + 1
              [] last'.op = "dealloc_pages" /\ used_pages > 0 -> used_pages - 1
              [] last'.op = "dealloc_pages" /\ used_pages = 0 -> used_pages'
              [] OTHER -> used_pages]_vars

\* C10: on a span of exactly k pages with no page handed out, once a byte
\* allocation has moved byte_next above start, alloc_pages(k, PAGE_SIZE)
\* returns NoMemory.
C10_WholeSpanPagesRefused ==
    [][(/\ status = "ready"
        /\ page_next = end
        /\ byte_next > start
        /\ last'.op = "alloc_pages"
        /\ last'.b = PAGE_SIZE
        /\ end - start = last'.a * PAGE_SIZE)
         => (last'.res = "NoMemory" /\ status' = "ready")]_vars

\* A 3-page span, one 1-byte allocation, then alloc_pages(3, PAGE_SIZE)
\* refused.
C10_Witness ==
    /\ status = "ready"
    /\ end - start = 3 * PAGE_SIZE
    /\ hist_ok = [HistNew EXCEPT !.a = 1]
    /\ byte_next = start + 1
    /\ page_next = end /\ page_count = 0
    /\ last = Call("alloc_pages", 3, PAGE_SIZE, "NoMemory", 0)

\* C11: a dealloc that returns sets byte_next to start exactly when it
\* takes byte_count from 1 to 0, whatever pos and layout it is given; when
\* byte_count is still above 0 afterwards byte_next is unchanged; page_next
\* and page_count are unchanged either way.
C11_DeallocResetsOnLastFree ==
    [][(last'.op = "dealloc" /\ last'.res = "unit") =>
         /\ (byte_count' = 0) <=> (byte_count = 1)
         /\ byte_count = 1 => byte_next' = start
         /\ byte_count' > 0 => byte_next' = byte_next
         /\ UNCHANGED <<page_next, page_count, start, end>>]_vars

\* The second of two frees took byte_count to 0 and put byte_next back at
\* start; the first had left it where the allocations had moved it.
C11_Witness ==
    /\ last.op = "dealloc" /\ last.res = "unit"
    /\ hist_ok = [HistNew EXCEPT !.a = 2, !.d = 2]
    /\ byte_count = 0
    /\ byte_next = start
    /\ page_next < end

C13_PagesNeverFreed ==
    [][(status = "ready" /\ last'.op # "init") => page_next' <= page_next]_vars

\* C14: in every reachable state each introspection method returns, without
\* underflow, total_bytes = end - start, used_bytes = byte_next - start and
\* available_bytes = page_next - byte_next, so that used_bytes +
\* available_bytes = page_next - start; and the call changes no field.
C14_IntrospectionExact ==
    [][last'.op \in DOMAIN Introspection =>
         /\ last'.res = "Ok"
         /\ status' = status /\ UNCHANGED fields
         /\ last'.op = "total_bytes" => last'.ret = end - start
         /\ last'.op = "used_bytes" => last'.ret = byte_next - start
         /\ last'.op = "available_bytes" => last'.ret = page_next - byte_next
         /\ used_bytes + available_bytes = page_next - start]_vars

\* C15: alloc is the reference bump step: with s the smallest multiple of
\* align at or above byte_next and e = s + size, it returns NoMemory and
\* changes nothing when e > page_next; otherwise it returns s, sets byte_next
\* to e, adds 1 to byte_count and changes nothing else.
C15_AllocIsBumpStep ==
    [][last'.op = "alloc" =>
         LET s == RoundUp(byte_next, last'.b)
             e == s + last'.a
         IN  IF e > page_next
             THEN last'.res = "NoMemory" /\ status' = "ready" /\ UNCHANGED fields
             ELSE /\ last'.res = "Ok" /\ last'.ret = s
                  /\ byte_next' = e
                  /\ byte_count' = byte_count + 1
                  /\ UNCHANGED <<start, end, page_next, page_count>>]_vars

\* C16: alloc_pages is the reference step: with s the largest multiple of
\* align_pow2 at or below page_next - num_pages * PAGE_SIZE, it returns
\* NoMemory and changes nothing when s < byte_next; otherwise it returns s,
\* sets page_next to s, adds 1 to page_count and changes nothing else.
C16_AllocPagesIsReferenceStep ==
    [][last'.op = "alloc_pages" =>
         LET s == RoundDown(page_next - last'.a * PAGE_SIZE, last'.b)
         IN  IF s < byte_next
             THEN last'.res = "NoMemory" /\ status' = "ready" /\ UNCHANGED fields
             ELSE /\ last'.res = "Ok" /\ last'.ret = s
                  /\ s + last'.a * PAGE_SIZE <= page_next
                  /\ page_next' = s
                  /\ page_count' = page_count + 1
                  /\ UNCHANGED <<start, end, byte_next, byte_count>>]_vars

\* C17: a dealloc or dealloc_pages made while the live count is 0 is fatal:
\* the allocator never goes on operating with a count that wrapped around.
C17_FreeAtZeroIsFatal ==
    [][/\ (last'.op = "dealloc" /\ byte_count = 0) => status' = "aborted"
       /\ (last'.op = "dealloc_pages" /\ page_count = 0) => status' = "aborted"]_vars

\* C19: whenever available_pages() returns a value of at least
\* n >= 1, alloc_pages(n, PAGE_SIZE) succeeds, for any start and size
\* (including an end that is no multiple of PAGE_SIZE).
C19_AvailablePagesCanBeAllocated ==
    [][(/\ status = "ready"
        /\ last'.op = "alloc_pages" /\ last'.b = PAGE_SIZE /\ last'.a >= 1
        /\ ~(overflow_checks /\ Introspection["available_pages"].ovf)
        /\ available_pages >= last'.a)
         => last'.res = "Ok"]_vars

\* C18: under a well-behaved caller the ranges of all outstanding
\* allocations, [a, a+size) for bytes and [p, p+count*PAGE_SIZE) for pages,
\* are pairwise disjoint and all lie inside [start, end).
Overlap(r, q) == r.size > 0 /\ q.size > 0 /\ r.lo < q.lo + q.size /\ q.lo < r.lo + r.size
C18_OutstandingDisjointInsideSpan ==
    \A r \in BagToSet(outstanding) :
        /\ start <= r.lo /\ r.lo + r.size <= end
        /\ r.size > 0 => CopiesIn(r, outstanding) = 1
        /\ \A q \in BagToSet(outstanding) : q # r => ~Overlap(r, q)

\* The same, in the overflow-checked build only (where the wrapping requests
\* of C7 panic instead of returning an address).
OutstandingDisjointChecked == overflow_checks => C18_OutstandingDisjointInsideSpan

\* C20: the HashMap behaves as a reference map without removal: get(k)
\* returns the value of the most recent insert(k, _) that returned, and None
\* for a key never inserted, even when every bucket is occupied; insert(k, v)
\* returns the previous value of k or None; each key occupies at most one
\* bucket; insert panics only for a new key with every bucket occupied.
Returned(call) == IF call.res = "Some" THEN Some(call.ret) ELSE None
BucketsOf(k) == {i \in DOMAIN buckets : buckets[i] # None /\ buckets[i][1] = k}
MapFull == \A i \in DOMAIN buckets : buckets[i] # None
MapCallRefines ==
    /\ map_last'.op = "get" =>
         map_last'.res # "panic" /\ Returned(map_last') = expected[map_last'.a]
    /\ (map_last'.op = "insert" /\ map_last'.res # "panic") =>
         /\ Returned(map_last') = expected[map_last'.a]
         /\ expected'[map_last'.a] = Some(map_last'.b)
    /\ (map_last'.op = "insert" /\ map_last'.res = "panic") =>
         MapFull /\ expected[map_last'.a] = None
MapKeysInOneBucket ==
    map_state # "none" => \A k \in MapKeys : Cardinality(BucketsOf(k)) <= 1
C20_MapRefinesReference ==
    /\ []MapKeysInOneBucket
    /\ [][MapCallRefines]_vars

\* The same for every map that has at least one bucket.
MapRefinesWhenCapacityPositive ==
    /\ []MapKeysInOneBucket
    /\ [][capacity' >= 1 => MapCallRefines]_vars

====
